---- MODULE Spec2Model ----
(***************************************************************************)
(* Three browser shopping carts and a chat client.                         *)
(*                                                                         *)
(*   "mini"  src/ecommerce-site/script.js : cart is an object              *)
(*           productId -> quantity, persisted under CART_KEY               *)
(*   "site"  src/script.js lines 1..523   : cart is an array of items,     *)
(*           rendered and then saved under the key 'cart'                  *)
(*   "shop"  src/script.js lines 524..1221: ShopEase, cart is an array of  *)
(*           items, saved and then rendered, checkout clears it from a     *)
(*           2 s timer                                                     *)
(*   chat    src/unnamed/part_000         : TourismChatbot                 *)
(*                                                                         *)
(* A page runs one of the three cart scripts; app is the script of the     *)
(* page.  Prices are in cents.  A JavaScript object is the sequence of its *)
(* entries in insertion order, a string of JSON is the sequence of its     *)
(* tokens, and a string of text is the sequence of its characters.         *)
(***************************************************************************)
EXTENDS Integers, Sequences, FiniteSets, TLC

\* ------------------------------------------------------------------ bounds
\* The first NumProducts products of each catalog are on the page.
NumProducts == 2
\* No operation is tried that would leave more than MaxItems items (the sum
\* of the quantities) in a cart.
MaxItems == 4
\* At most MaxTimers checkout timers are pending at once.
MaxTimers == 2
\* At most MaxFaults handlers throw in a run.
MaxFaults == 1
MaxChat == 5
MaxReply == 2
MaxQuick == 2
MaxHealth == 1

\* generateSessionId(): what the clock and Math.random() may make of it.
SessionIds == {"session_1", "session_2"}

Tabs == {1, 2}
Faults == {"none", "save", "render"}
\* The quantity arguments of addToCart and updateQuantity, and of setQuantity.
Deltas == {-2, -1, 1, 2}
Quantities == -1 .. MaxItems

\* ---------------------------------------------------------------- catalogs
miniCatalog ==
  << [id |-> "p1", price |-> 4999], [id |-> "p2", price |-> 7950],
     [id |-> "p3", price |-> 1200], [id |-> "p4", price |-> 9900],
     [id |-> "p5", price |-> 1875], [id |-> "p6", price |-> 6425] >>

siteCatalog ==
  << [id |-> 1, price |-> 8999], [id |-> 2, price |-> 2499],
     [id |-> 3, price |-> 3499], [id |-> 4, price |-> 12999],
     [id |-> 5, price |-> 4999], [id |-> 6, price |-> 7999],
     [id |-> 7, price |-> 4499], [id |-> 8, price |-> 8999] >>

shopCatalog ==
  << [id |-> 1, price |-> 8999],  [id |-> 2, price |-> 19999],
     [id |-> 3, price |-> 2999],  [id |-> 4, price |-> 7999],
     [id |-> 5, price |-> 29999], [id |-> 6, price |-> 4999],
     [id |-> 7, price |-> 3999],  [id |-> 8, price |-> 5999],
     [id |-> 9, price |-> 4599],  [id |-> 10, price |-> 3499],
     [id |-> 11, price |-> 12999], [id |-> 12, price |-> 11999] >>

products == SubSeq(miniCatalog, 1, NumProducts)
siteProducts == SubSeq(siteCatalog, 1, NumProducts)
shopProducts == SubSeq(shopCatalog, 1, NumProducts)

\* The identifiers a caller may pass: those of the page's products and one
\* that no product has.
MiniIds == {products[i].id : i \in 1 .. Len(products)} \cup {"zz"}
ArrayIds == (1 .. NumProducts) \cup {99}

\* ----------------------------------------------------- sequences, helpers
RECURSIVE SumSeq(_)
SumSeq(s) == IF s = <<>> THEN 0 ELSE Head(s) + SumSeq(Tail(s))

RECURSIVE Flatten(_)
Flatten(ss) == IF ss = <<>> THEN <<>> ELSE Head(ss) \o Flatten(Tail(ss))

\* Array.prototype.find over a list of records with an id: the index of the
\* first one with that id, 0 when there is none.
FindIndex(s, id) ==
  IF \E i \in 1 .. Len(s) : s[i].id = id
  THEN CHOOSE i \in 1 .. Len(s) :
         s[i].id = id /\ \A j \in 1 .. (i - 1) : s[j].id # id
  ELSE 0

\* ======================================================== the mapping cart
\* cart[productId] ?? 0
Lookup(c, id) ==
  LET i == FindIndex(c, id) IN IF i = 0 THEN 0 ELSE c[i].quantity

\* cart[productId] = v : an existing key keeps its place, a new one is last.
SetKey(c, id, v) ==
  LET i == FindIndex(c, id) IN
  IF i = 0 THEN Append(c, [id |-> id, quantity |-> v])
  ELSE [c EXCEPT ![i].quantity = v]

\* delete cart[productId]
DeleteKey(c, id) == SelectSeq(c, LAMBDA e : e.id # id)

\* addToCart without its delete: an entry that reaches 0 or less stays.
addToCartKeeping(c, productId, quantity) ==
  SetKey(c, productId, Lookup(c, productId) + quantity)

addToCart(c, productId, quantity) ==
  LET c1 == SetKey(c, productId, Lookup(c, productId) + quantity) IN
  IF Lookup(c1, productId) <= 0 THEN DeleteKey(c1, productId) ELSE c1

\* setQuantity(), had it added the quantity to the one the cart holds.
setQuantityAdding(c, productId, quantity) ==
  IF quantity <= 0 THEN DeleteKey(c, productId)
  ELSE SetKey(c, productId, Lookup(c, productId) + quantity)

setQuantity(c, productId, quantity) ==
  IF quantity <= 0 THEN DeleteKey(c, productId)
  ELSE SetKey(c, productId, quantity)

removeFromCart(c, productId) == DeleteKey(c, productId)

getCartCount(c) == SumSeq([i \in 1 .. Len(c) |-> c[i].quantity])

RECURSIVE getCartTotalFrom(_, _)
getCartTotalFrom(c, sum) ==
  IF c = <<>> THEN sum
  ELSE LET i == FindIndex(products, Head(c).id) IN
       getCartTotalFrom(Tail(c),
         IF i # 0 THEN sum + products[i].price * Head(c).quantity ELSE sum)

\* A total that forgets the quantities: sum + product.price.
getCartTotalOfOnes(c) ==
  getCartTotalFrom([i \in 1 .. Len(c) |-> [c[i] EXCEPT !.quantity = 1]], 0)

getCartTotal(c) == getCartTotalFrom(c, 0)

\* JSON.stringify(cart): the tokens of {"p1":2,"p2":1}
miniStringify(c) ==
  <<"{">> \o Flatten([i \in 1 .. Len(c) |-> <<c[i].id, c[i].quantity>>]) \o <<"}">>

\* JSON.parse(raw) of an object of numbers
miniParse(raw) ==
  LET n == (Len(raw) - 2) \div 2 IN
  [i \in 1 .. n |-> [id |-> raw[2 * i], quantity |-> raw[2 * i + 1]]]

\* loadCart(): raw ? JSON.parse(raw) : {} (getItem gives null, here <<>>,
\* when the key is absent)
loadCart(raw) == IF raw # <<>> THEN miniParse(raw) ELSE <<>>

\* renderCart(): what the page shows
renderCart(c) ==
  [count |-> getCartCount(c),
   total |-> getCartTotal(c),
   empty |-> Len(c) = 0,
   items |-> LET known == SelectSeq(c, LAMBDA e : FindIndex(products, e.id) # 0)
             IN [i \in 1 .. Len(known) |->
                   [id |-> known[i].id, quantity |-> known[i].quantity]]]

\* ================================================== the array cart, "site"
\* addToCart() of the site, had it pushed a new entry every time.
siteAddToCartPushing(c, productId) ==
  LET p == FindIndex(siteProducts, productId) IN
  IF p = 0 THEN c
  ELSE Append(c, [id |-> siteProducts[p].id, price |-> siteProducts[p].price,
                  quantity |-> 1])

siteAddToCart(c, productId) ==
  LET p == FindIndex(siteProducts, productId)
      i == FindIndex(c, productId) IN
  IF p = 0 THEN c
  ELSE IF i # 0 THEN [c EXCEPT ![i].quantity = @ + 1]
  ELSE Append(c, [id |-> siteProducts[p].id, price |-> siteProducts[p].price,
                  quantity |-> 1])

siteRemoveFromCart(c, productId) == SelectSeq(c, LAMBDA item : item.id # productId)

\* updateQuantity that removes the item below 0 only: quantity < 0.
siteUpdateQuantityBelowZero(c, productId, change) ==
  LET i == FindIndex(c, productId) IN
  IF i = 0 THEN c
  ELSE LET c1 == [c EXCEPT ![i].quantity = @ + change] IN
       IF c1[i].quantity < 0 THEN siteRemoveFromCart(c1, productId) ELSE c1

siteUpdateQuantity(c, productId, change) ==
  LET i == FindIndex(c, productId) IN
  IF i = 0 THEN c
  ELSE LET c1 == [c EXCEPT ![i].quantity = @ + change] IN
       IF c1[i].quantity <= 0 THEN siteRemoveFromCart(c1, productId) ELSE c1

\* cart.reduce((sum, item) => sum + item.price * item.quantity, 0)
RECURSIVE ReduceTotal(_, _)
ReduceTotal(c, sum) ==
  IF c = <<>> THEN sum
  ELSE ReduceTotal(Tail(c), sum + Head(c).price * Head(c).quantity)

RECURSIVE ReduceCount(_, _)
ReduceCount(c, sum) ==
  IF c = <<>> THEN sum ELSE ReduceCount(Tail(c), sum + Head(c).quantity)

siteUpdateCartDisplay(c) ==
  [count |-> ReduceCount(c, 0),
   total |-> IF Len(c) = 0 THEN 0 ELSE ReduceTotal(c, 0),
   empty |-> Len(c) = 0,
   items |-> [i \in 1 .. Len(c) |-> [id |-> c[i].id, quantity |-> c[i].quantity]]]

\* JSON.stringify(cart): the tokens of [{"id":1,"price":89.99,"quantity":2}]
arrayStringify(c) ==
  <<"[">> \o Flatten([i \in 1 .. Len(c) |-> <<c[i].id, c[i].price, c[i].quantity>>])
         \o <<"]">>

\* A parse that loses the last item of the array.
arrayParseShort(raw) ==
  LET n == (Len(raw) - 2) \div 3 - 1 IN
  [i \in 1 .. n |-> [id |-> raw[3 * i - 1], price |-> raw[3 * i],
                     quantity |-> raw[3 * i + 1]]]

arrayParse(raw) ==
  LET n == (Len(raw) - 2) \div 3 IN
  [i \in 1 .. n |-> [id |-> raw[3 * i - 1], price |-> raw[3 * i],
                     quantity |-> raw[3 * i + 1]]]

siteSaveCartToStorage(c) == arrayStringify(c)

\* loadCartFromStorage(): if (savedCart) cart = JSON.parse(savedCart)
siteLoadCartFromStorage(c, savedCart) ==
  IF savedCart # <<>> THEN arrayParse(savedCart) ELSE c

\* ============================================== the array cart, "shop"
\* addToCart that does not look for the item and always pushes a new one.
shopAddToCartPushing(c, productId) ==
  LET p == FindIndex(shopProducts, productId) IN
  IF p = 0 THEN c
  ELSE Append(c, [id |-> shopProducts[p].id, price |-> shopProducts[p].price,
                  quantity |-> 1])

shopAddToCart(c, productId) ==
  LET p == FindIndex(shopProducts, productId)
      i == FindIndex(c, productId) IN
  IF p = 0 THEN c
  ELSE IF i # 0 THEN [c EXCEPT ![i].quantity = @ + 1]
  ELSE Append(c, [id |-> shopProducts[p].id, price |-> shopProducts[p].price,
                  quantity |-> 1])

shopRemoveFromCart(c, productId) == SelectSeq(c, LAMBDA item : item.id # productId)

shopUpdateQuantity(c, productId, change) ==
  LET i == FindIndex(c, productId) IN
  IF i = 0 THEN c
  ELSE LET c1 == [c EXCEPT ![i].quantity = @ + change] IN
       IF c1[i].quantity <= 0 THEN shopRemoveFromCart(c1, productId) ELSE c1

\* updateCartDisplay() of ShopEase, had it counted the entries, not the items.
shopUpdateCartDisplayOfEntries(c) ==
  [count |-> Len(c),
   total |-> IF Len(c) = 0 THEN 0 ELSE ReduceTotal(c, 0),
   empty |-> Len(c) = 0,
   items |-> [i \in 1 .. Len(c) |-> [id |-> c[i].id, quantity |-> c[i].quantity]]]

shopUpdateCartDisplay(c) ==
  [count |-> ReduceCount(c, 0),
   total |-> IF Len(c) = 0 THEN 0 ELSE ReduceTotal(c, 0),
   empty |-> Len(c) = 0,
   items |-> [i \in 1 .. Len(c) |-> [id |-> c[i].id, quantity |-> c[i].quantity]]]

shopSaveCartToStorage(c) == arrayStringify(c)

shopLoadCartFromStorage(c, savedCart) ==
  IF savedCart # <<>> THEN arrayParse(savedCart) ELSE c

\* ------------------------------------------------- the three, side by side
Stringify(a, c) ==
  IF a = "mini" THEN miniStringify(c)
  ELSE IF a = "site" THEN siteSaveCartToStorage(c) ELSE shopSaveCartToStorage(c)

\* The cart a fresh page has once its script has read the stored blob.
Load(a, raw) ==
  IF a = "mini" THEN loadCart(raw)
  ELSE IF a = "site" THEN siteLoadCartFromStorage(<<>>, raw)
  ELSE shopLoadCartFromStorage(<<>>, raw)

Render(a, c) ==
  IF a = "mini" THEN renderCart(c)
  ELSE IF a = "site" THEN siteUpdateCartDisplay(c) ELSE shopUpdateCartDisplay(c)

NoId(a) == IF a = "mini" THEN "none" ELSE 0

\* =================================================================== state
VARIABLES
  app,            \* the script of the page: "mini", "site" or "shop"
  open,           \* the tabs that show the page
  cart,           \* cart[t]: the in-memory cart of tab t
  blob,           \* the value stored under the cart's key, <<>> when absent
  shown,          \* shown[t]: the cart as tab t displays it
  currentUser,    \* shop: the logged-in user, "null" when none
  userBlob,       \* shop: the value stored under 'currentUser'
  userModal,      \* shop: the user modal is open
  checkoutTimers, \* shop: pending timers of checkout()
  last,           \* the handler that ran last and its arguments
  streak,         \* the run of consecutive addToCart(p) calls in progress
  savedCart,      \* the in-memory cart as of the last write of blob
  faults,         \* the number of handlers that have thrown
  ideal,          \* mini: the cart had every call of every tab acted on one cart
  chatMessages,   \* chat: the children of #chatMessages, oldest first
  log,            \* chat: every message ever appended to #chatMessages, in order
  messageInput,   \* chat: messageInput.value
  isLoading,      \* chat: this.isLoading
  errorModal,     \* chat: the error modal is displayed
  calls,          \* chat: the sendMessage() calls that await fetch or json
  quickTimers,    \* chat: pending timers of the quick-action buttons
  chatLast,       \* chat: the handler that ran last and what it appended
  sessionId,      \* chat: this.sessionId
  posts,          \* chat: the bodies of the POSTs to /api/chat, in order
  health,         \* chat: the calls of checkServerHealth() in flight
  request,        \* server: the POST to /api/chat handled last
  payload,        \* server: what chat() sent to the Rasa webhook for it
  rasa_response,  \* server: what the Rasa webhook did with the payload
  response,       \* server: what chat() made Flask answer to it
  searchInput,    \* shop: searchInput.value
  activeCategory, \* shop: the category whose navigation link is active
  priceRange,     \* shop: priceRange.value, in cents
  sortSelect,     \* shop: sortSelect.value
  filteredProducts, \* shop: the identifiers of filteredProducts, in order
  currentPage,    \* shop: currentPage
  productsGrid    \* shop: the identifiers of the cards of the products grid

cartVars == <<app, open, cart, blob, shown, currentUser, userBlob, userModal,
              checkoutTimers, last, streak, savedCart, faults, ideal>>

chatVars == <<chatMessages, log, messageInput, isLoading, errorModal, calls, quickTimers,
              chatLast, sessionId, posts, health>>

serverVars == <<request, payload, rasa_response, response>>

filterVars == <<searchInput, activeCategory, priceRange, sortSelect, filteredProducts,
                currentPage, productsGrid>>

vars == <<cartVars, chatVars, serverVars, filterVars>>

NoStreak == [id |-> 0, n |-> 0]

\* was: the quantity the cart of tab t held for id when the handler began.
Ran(op, t, id, arg, f) ==
  [op |-> op, tab |-> t, id |-> id, arg |-> arg, fault |-> f,
   was |-> IF id = NoId(app) THEN 0 ELSE Lookup(cart[t], id)]

InitCart(apps, tabs) ==
  /\ app \in apps
  /\ open = tabs
  /\ cart = [t \in Tabs |-> <<>>]
  /\ blob = <<>>
  /\ shown = [t \in Tabs |-> Render(app, <<>>)]
  /\ currentUser = "null"
  /\ userBlob = "null"
  /\ userModal = FALSE
  /\ checkoutTimers = 0
  /\ last = [op |-> "init", tab |-> 1, id |-> NoId(app), arg |-> 0,
             fault |-> "none", was |-> 0]
  /\ streak = NoStreak
  /\ savedCart = <<>>
  /\ faults = 0
  /\ ideal = <<>>

\* The chat page before any handler ran.
EmptyChat ==
  /\ chatMessages = <<>>
  /\ log = <<>>
  /\ messageInput = <<>>
  /\ isLoading = FALSE
  /\ errorModal = FALSE
  /\ calls = <<>>
  /\ quickTimers = 0
  /\ chatLast = [op |-> "init", outcome |-> "done", n |-> 0]
  /\ posts = <<>>

\* new TourismChatbot(): a fresh session identifier on the welcome section,
\* and the first health check on its way.
InitChat ==
  /\ EmptyChat
  /\ sessionId \in SessionIds
  /\ health = 1

\* A shop page: no chatbot is constructed.
NoChat ==
  /\ EmptyChat
  /\ sessionId = "none"
  /\ health = 0

\* The product list as the page load leaves it: nothing typed, no category
\* chosen, the slider at its right end, all products, the first page shown.
PageLoadFilter ==
  /\ searchInput = <<>>
  /\ activeCategory = <<"a", "l", "l">>
  /\ priceRange = 50000
  /\ sortSelect = "default"
  /\ filteredProducts = <<1, 2, 3, 4, 5, 6, 7, 8, 9, 10, 11, 12>>
  /\ currentPage = 1
  /\ productsGrid = <<1, 2, 3, 4, 5, 6, 7, 8>>

\* The Flask application before its first request.
NoRequest ==
  /\ request = <<>>
  /\ payload = <<>>
  /\ rasa_response = <<>>
  /\ response = <<>>

\* The streak after addToCart(id) on the cart c, for an id the script makes
\* an entry for: a first call on a cart with no entry for id starts a
\* streak, the next calls for id lengthen it.
StreakAfterAdd(c, id, makesEntry) ==
  IF ~makesEntry THEN NoStreak
  ELSE IF FindIndex(c, id) = 0 THEN [id |-> id, n |-> 1]
  ELSE IF streak.n > 0 /\ streak.id = id THEN [id |-> id, n |-> streak.n + 1]
  ELSE NoStreak

\* ------------------------------------------------ the end of a cart handler
\* f is what goes wrong in the handler: nothing ("none"), setItem throws
\* ("save"), or the rendering throws at its first DOM access ("render").  A
\* throw ends the handler where it is raised.

\* mini: saveCart(); renderCart();
MiniSaveAndRender(t, c1, f) ==
  /\ f # "none" => faults < MaxFaults
  /\ faults' = IF f # "none" THEN faults + 1 ELSE faults
  /\ cart' = [cart EXCEPT ![t] = c1]
  /\ blob' = IF f # "save" THEN miniStringify(c1) ELSE blob
  /\ savedCart' = IF f # "save" THEN c1 ELSE savedCart
  /\ shown' = IF f = "none" THEN [shown EXCEPT ![t] = renderCart(c1)] ELSE shown

\* site: updateCartDisplay(); saveCartToStorage();
SiteRenderAndSave(c1, f) ==
  /\ f # "none" => faults < MaxFaults
  /\ faults' = IF f # "none" THEN faults + 1 ELSE faults
  /\ cart' = [cart EXCEPT ![1] = c1]
  /\ shown' = IF f # "render" THEN [shown EXCEPT ![1] = siteUpdateCartDisplay(c1)]
              ELSE shown
  /\ blob' = IF f = "none" THEN siteSaveCartToStorage(c1) ELSE blob
  /\ savedCart' = IF f = "none" THEN c1 ELSE savedCart

\* shop: saveCartToStorage(); updateCartDisplay();
ShopSaveAndRender(c1, f) ==
  /\ f # "none" => faults < MaxFaults
  /\ faults' = IF f # "none" THEN faults + 1 ELSE faults
  /\ cart' = [cart EXCEPT ![1] = c1]
  /\ blob' = IF f # "save" THEN shopSaveCartToStorage(c1) ELSE blob
  /\ savedCart' = IF f # "save" THEN c1 ELSE savedCart
  /\ shown' = IF f = "none" THEN [shown EXCEPT ![1] = shopUpdateCartDisplay(c1)]
              ELSE shown

shopVars == <<currentUser, userBlob, userModal, checkoutTimers>>

\* ------------------------------------------------------- actions of "mini"
MiniAddToCart(t, productId, quantity, f) ==
  /\ app = "mini" /\ t \in open
  /\ getCartCount(addToCart(cart[t], productId, quantity)) <= MaxItems
  /\ getCartCount(addToCart(ideal, productId, quantity)) <= MaxItems
  /\ MiniSaveAndRender(t, addToCart(cart[t], productId, quantity), f)
  /\ last' = Ran("addToCart", t, productId, quantity, f)
  /\ streak' = StreakAfterAdd(cart[t], productId, quantity = 1)
  /\ ideal' = addToCart(ideal, productId, quantity)
  /\ UNCHANGED <<chatVars, serverVars, filterVars, app, open, shopVars>>

MiniSetQuantity(t, productId, quantity, f) ==
  /\ app = "mini" /\ t \in open
  /\ getCartCount(setQuantity(cart[t], productId, quantity)) <= MaxItems
  /\ getCartCount(setQuantity(ideal, productId, quantity)) <= MaxItems
  /\ MiniSaveAndRender(t, setQuantity(cart[t], productId, quantity), f)
  /\ last' = Ran("setQuantity", t, productId, quantity, f)
  /\ streak' = NoStreak
  /\ ideal' = setQuantity(ideal, productId, quantity)
  /\ UNCHANGED <<chatVars, serverVars, filterVars, app, open, shopVars>>

MiniRemoveFromCart(t, productId, f) ==
  /\ app = "mini" /\ t \in open
  /\ MiniSaveAndRender(t, removeFromCart(cart[t], productId), f)
  /\ last' = Ran("removeFromCart", t, productId, 0, f)
  /\ streak' = NoStreak
  /\ ideal' = removeFromCart(ideal, productId)
  /\ UNCHANGED <<chatVars, serverVars, filterVars, app, open, shopVars>>

\* The page is loaded again: let cart = loadCart(), then renderCart() on
\* DOMContentLoaded.
MiniReload(t) ==
  /\ app = "mini" /\ t \in open
  /\ cart' = [cart EXCEPT ![t] = loadCart(blob)]
  /\ shown' = [shown EXCEPT ![t] = renderCart(loadCart(blob))]
  /\ last' = Ran("reload", t, NoId(app), 0, "none")
  /\ streak' = NoStreak
  /\ UNCHANGED <<chatVars, serverVars, filterVars, app, open, blob, savedCart, faults,
                 ideal, shopVars>>

\* ------------------------------------------------------- actions of "site"
SiteAddToCart(productId, f) ==
  /\ app = "site"
  /\ ReduceCount(cart[1], 0) + 1 <= MaxItems
  /\ IF FindIndex(siteProducts, productId) = 0
     THEN f = "none" /\ UNCHANGED <<cart, blob, shown, savedCart, faults>>
     ELSE SiteRenderAndSave(siteAddToCart(cart[1], productId), f)
  /\ last' = Ran("addToCart", 1, productId, 1, f)
  /\ streak' = StreakAfterAdd(cart[1], productId,
                              FindIndex(siteProducts, productId) # 0)
  /\ UNCHANGED <<chatVars, serverVars, filterVars, app, open, ideal, shopVars>>

SiteRemoveFromCart(productId, f) ==
  /\ app = "site"
  /\ SiteRenderAndSave(siteRemoveFromCart(cart[1], productId), f)
  /\ last' = Ran("removeFromCart", 1, productId, 0, f)
  /\ streak' = NoStreak
  /\ UNCHANGED <<chatVars, serverVars, filterVars, app, open, ideal, shopVars>>

SiteUpdateQuantity(productId, change, f) ==
  /\ app = "site"
  /\ ReduceCount(cart[1], 0) + change <= MaxItems
  /\ IF FindIndex(cart[1], productId) = 0
     THEN f = "none" /\ UNCHANGED <<cart, blob, shown, savedCart, faults>>
     ELSE SiteRenderAndSave(siteUpdateQuantity(cart[1], productId, change), f)
  /\ last' = Ran("updateQuantity", 1, productId, change, f)
  /\ streak' = NoStreak
  /\ UNCHANGED <<chatVars, serverVars, filterVars, app, open, ideal, shopVars>>

\* handleCheckout(): an empty cart only shows a notification.
SiteHandleCheckout(f) ==
  /\ app = "site"
  /\ IF Len(cart[1]) = 0
     THEN f = "none" /\ UNCHANGED <<cart, blob, shown, savedCart, faults>>
     ELSE SiteRenderAndSave(<<>>, f)
  /\ last' = Ran("checkout", 1, NoId(app), 0, f)
  /\ streak' = NoStreak
  /\ UNCHANGED <<chatVars, serverVars, filterVars, app, open, ideal, shopVars>>

\* DOMContentLoaded: loadCartFromStorage(); updateCartDisplay();
SiteReload ==
  /\ app = "site"
  /\ cart' = [cart EXCEPT ![1] = siteLoadCartFromStorage(<<>>, blob)]
  /\ shown' = [shown EXCEPT
                 ![1] = siteUpdateCartDisplay(siteLoadCartFromStorage(<<>>, blob))]
  /\ last' = Ran("reload", 1, NoId(app), 0, "none")
  /\ streak' = NoStreak
  /\ UNCHANGED <<chatVars, serverVars, filterVars, app, open, blob, savedCart, faults,
                 ideal, shopVars>>

\* ------------------------------------------------------- actions of "shop"
ShopAddToCart(productId, f) ==
  /\ app = "shop"
  /\ ReduceCount(cart[1], 0) + 1 <= MaxItems
  /\ IF FindIndex(shopProducts, productId) = 0
     THEN f = "none" /\ UNCHANGED <<cart, blob, shown, savedCart, faults>>
     ELSE ShopSaveAndRender(shopAddToCart(cart[1], productId), f)
  /\ last' = Ran("addToCart", 1, productId, 1, f)
  /\ streak' = StreakAfterAdd(cart[1], productId,
                              FindIndex(shopProducts, productId) # 0)
  /\ UNCHANGED <<chatVars, serverVars, filterVars, app, open, ideal, shopVars>>

ShopRemoveFromCart(productId, f) ==
  /\ app = "shop"
  /\ ShopSaveAndRender(shopRemoveFromCart(cart[1], productId), f)
  /\ last' = Ran("removeFromCart", 1, productId, 0, f)
  /\ streak' = NoStreak
  /\ UNCHANGED <<chatVars, serverVars, filterVars, app, open, ideal, shopVars>>

ShopUpdateQuantity(productId, change, f) ==
  /\ app = "shop"
  /\ ReduceCount(cart[1], 0) + change <= MaxItems
  /\ IF FindIndex(cart[1], productId) = 0
     THEN f = "none" /\ UNCHANGED <<cart, blob, shown, savedCart, faults>>
     ELSE ShopSaveAndRender(shopUpdateQuantity(cart[1], productId, change), f)
  /\ last' = Ran("updateQuantity", 1, productId, change, f)
  /\ streak' = NoStreak
  /\ UNCHANGED <<chatVars, serverVars, filterVars, app, open, ideal, shopVars>>

\* clearCartItems without its saveCartToStorage().
ShopClearCartItemsUnsaved(f) ==
  /\ app = "shop"
  /\ f = "none"
  /\ cart' = [cart EXCEPT ![1] = <<>>]
  /\ shown' = [shown EXCEPT ![1] = shopUpdateCartDisplay(<<>>)]
  /\ last' = Ran("clearCart", 1, NoId(app), 0, f)
  /\ streak' = NoStreak
  /\ UNCHANGED <<chatVars, serverVars, filterVars, app, open, blob, savedCart, faults,
                 ideal, shopVars>>

ShopClearCartItems(f) ==
  /\ app = "shop"
  /\ ShopSaveAndRender(<<>>, f)
  /\ last' = Ran("clearCart", 1, NoId(app), 0, f)
  /\ streak' = NoStreak
  /\ UNCHANGED <<chatVars, serverVars, filterVars, app, open, ideal, shopVars>>

\* checkout(): the click.  An empty cart and a missing login end it; else
\* the clearing of the cart is left to a timer.
ShopCheckout ==
  /\ app = "shop"
  /\ IF Len(cart[1]) = 0
     THEN UNCHANGED <<userModal, checkoutTimers>>
     ELSE IF currentUser = "null"
     THEN userModal' = TRUE /\ UNCHANGED checkoutTimers
     ELSE /\ checkoutTimers < MaxTimers
          /\ checkoutTimers' = checkoutTimers + 1
          /\ UNCHANGED userModal
  /\ last' = Ran("checkout", 1, NoId(app), 0, "none")
  /\ streak' = NoStreak
  /\ UNCHANGED <<chatVars, serverVars, filterVars, app, open, cart, blob, shown, savedCart,
                 faults, ideal, currentUser, userBlob>>

\* The callback of checkout()'s setTimeout.
ShopCheckoutTimeout(f) ==
  /\ app = "shop"
  /\ checkoutTimers > 0
  /\ checkoutTimers' = checkoutTimers - 1
  /\ ShopSaveAndRender(<<>>, f)
  /\ last' = Ran("checkoutDone", 1, NoId(app), 0, f)
  /\ streak' = NoStreak
  /\ UNCHANGED <<chatVars, serverVars, filterVars, app, open, ideal, currentUser, userBlob,
                 userModal>>

\* login() and register(): the user is set and stored, the modal closed.
ShopLogin(user) ==
  /\ app = "shop"
  /\ currentUser' = user
  /\ userBlob' = user
  /\ userModal' = FALSE
  /\ last' = Ran("login", 1, NoId(app), 0, "none")
  /\ streak' = NoStreak
  /\ UNCHANGED <<chatVars, serverVars, filterVars, app, open, cart, blob, shown, savedCart,
                 faults, ideal, checkoutTimers>>

ShopLogout ==
  /\ app = "shop"
  /\ currentUser' = "null"
  /\ userBlob' = "null"
  /\ last' = Ran("logout", 1, NoId(app), 0, "none")
  /\ streak' = NoStreak
  /\ UNCHANGED <<chatVars, serverVars, filterVars, app, open, cart, blob, shown, savedCart,
                 faults, ideal, checkoutTimers, userModal>>

\* DOMContentLoaded: initializeWebsite(); loadCartFromStorage();
\* updateCartDisplay().  The timers of the page that is left are gone.
ShopReload ==
  /\ app = "shop"
  /\ currentUser' = userBlob
  /\ userModal' = FALSE
  /\ checkoutTimers' = 0
  /\ cart' = [cart EXCEPT ![1] = shopLoadCartFromStorage(<<>>, blob)]
  /\ shown' = [shown EXCEPT
                 ![1] = shopUpdateCartDisplay(shopLoadCartFromStorage(<<>>, blob))]
  /\ last' = Ran("reload", 1, NoId(app), 0, "none")
  /\ streak' = NoStreak
  /\ UNCHANGED <<chatVars, serverVars, filterVars, app, open, blob, savedCart, faults,
                 ideal, userBlob>>

\* ==================================================== the tourism chatbot
\* A text is a sequence of characters; a chat message is its role and the
\* text handed to addUserMessage or addBotMessage.
Welcome == <<"W">>
Fallback == <<"F">>
Question == <<"q">>
TypedInputs == {<<>>, <<" ">>, <<" ", "h", " ">>}
Contents == {<<"a">>, <<"b">>}

RECURSIVE trimStart(_)
trimStart(s) == IF s # <<>> /\ Head(s) = " " THEN trimStart(Tail(s)) ELSE s

RECURSIVE trimEnd(_)
trimEnd(s) ==
  IF s # <<>> /\ s[Len(s)] = " " THEN trimEnd(SubSeq(s, 1, Len(s) - 1)) ELSE s

trim(s) == trimEnd(trimStart(s))

addUserMessage(msgs, content) == Append(msgs, [role |-> "user", content |-> content])

addBotMessage(msgs, content) == Append(msgs, [role |-> "bot", content |-> content])

\* The bodies /api/chat answers with: one that is no JSON, or an object with
\* a success flag and a list of messages, each with its content.
SeqsUpTo(S, n) == UNION {[1 .. k -> S] : k \in 0 .. n}

ReplyMessages == SeqsUpTo([type : {"bot"}, content : Contents], MaxReply)

Bodies ==
  [parsable : {TRUE}, success : BOOLEAN, messages : ReplyMessages]
    \cup {[parsable |-> FALSE, success |-> FALSE, messages |-> <<>>]}

\* data.messages.forEach(msg => this.addBotMessage(msg.content)), last first.
RECURSIVE forEachAddBotMessageReversed(_, _)
forEachAddBotMessageReversed(msgs, messages) ==
  IF messages = <<>> THEN msgs
  ELSE addBotMessage(forEachAddBotMessageReversed(msgs, Tail(messages)),
                     Head(messages).content)

\* data.messages.forEach(msg => this.addBotMessage(msg.content))
RECURSIVE forEachAddBotMessage(_, _)
forEachAddBotMessage(msgs, messages) ==
  IF messages = <<>> THEN msgs
  ELSE forEachAddBotMessage(addBotMessage(msgs, Head(messages).content), Tail(messages))

\* The try block of sendMessage() from the parsed data on, had it rendered
\* the messages before it looked at the success flag.
sendMessageTryRenderingFirst(msgs, data) ==
  [chatMessages |-> forEachAddBotMessage(msgs, data.messages), threw |-> ~data.success]

\* The try block of sendMessage() from the parsed data on: the list after
\* it, and whether it threw.
sendMessageTry(msgs, data) ==
  IF data.success
  THEN [chatMessages |-> forEachAddBotMessage(msgs, data.messages), threw |-> FALSE]
  ELSE [chatMessages |-> msgs, threw |-> TRUE]

\* The catch block of sendMessage(): showError(), then the fallback message.
sendMessageCatch(msgs) ==
  [chatMessages |-> addBotMessage(msgs, Fallback), errorModal |-> TRUE]

\* The messages the calls in flight may still append.
RECURSIVE Reserved(_)
Reserved(cs) ==
  IF cs = <<>> THEN 0
  ELSE Reserved(Tail(cs)) +
       ( IF Head(cs).pc = "fetch" THEN MaxReply
         ELSE IF Head(cs).response.parsable /\ Head(cs).response.success
              THEN Len(Head(cs).response.messages)
              ELSE 1 )

NoResponse == [parsable |-> FALSE, success |-> FALSE, messages |-> <<>>]

Without(cs, i) == SubSeq(cs, 1, i - 1) \o SubSeq(cs, i + 1, Len(cs))

\* What a handler appended to the list msgs to make it msgs1.
Appended(msgs1, msgs) == SubSeq(msgs1, Len(msgs) + 1, Len(msgs1))

\* The record of the handler that ran last.
ChatRan(op, outcome, n) == [op |-> op, outcome |-> outcome, n |-> n]

\* startChat(), had it started the chat on an emptied list.
StartChatAfresh ==
  /\ app = "chat"
  /\ Len(log) + 1 + Reserved(calls) <= MaxChat
  /\ chatMessages' = addBotMessage(<<>>, Welcome)
  /\ log' = Append(log, chatMessages'[1])
  /\ chatLast' = ChatRan("startChat", "done", 0)
  /\ UNCHANGED <<cartVars, serverVars, filterVars, sessionId, posts, health, messageInput,
                 isLoading, errorModal, calls, quickTimers>>

\* startChat()
StartChat ==
  /\ app = "chat"
  /\ Len(log) + 1 + Reserved(calls) <= MaxChat
  /\ chatMessages' = addBotMessage(chatMessages, Welcome)
  /\ log' = log \o Appended(chatMessages', chatMessages)
  /\ chatLast' = ChatRan("startChat", "done", 0)
  /\ UNCHANGED <<cartVars, serverVars, filterVars, sessionId, posts, health, messageInput,
                 isLoading, errorModal, calls, quickTimers>>

\* showWelcome(), the back button.
ShowWelcome ==
  /\ app = "chat"
  /\ chatMessages' = <<>>
  /\ chatLast' = ChatRan("showWelcome", "done", 0)
  /\ UNCHANGED <<cartVars, serverVars, filterVars, sessionId, posts, health, log,
                 messageInput, isLoading, errorModal, calls, quickTimers>>

\* The user edits the input field, which setLoading(true) disables.
TypeInput(value) ==
  /\ app = "chat"
  /\ ~isLoading
  /\ messageInput # value
  /\ messageInput' = value
  /\ chatLast' = ChatRan("input", "done", 0)
  /\ UNCHANGED <<cartVars, serverVars, filterVars, sessionId, posts, health, chatMessages,
                 log, isLoading, errorModal, calls, quickTimers>>

\* sendMessage() up to its first await, had it made a session identifier of
\* its own for each request.
SendMessageOnFreshSession(value, op) ==
  LET message == trim(value) IN
  IF message = <<>> \/ isLoading
  THEN /\ messageInput' = value
       /\ chatLast' = ChatRan(op, "rejected", 0)
       /\ UNCHANGED <<chatMessages, log, isLoading, calls, posts>>
  ELSE /\ Len(log) + 1 + MaxReply + Reserved(calls) <= MaxChat
       /\ chatMessages' = addUserMessage(chatMessages, message)
       /\ log' = log \o Appended(chatMessages', chatMessages)
       /\ messageInput' = <<>>
       /\ isLoading' = TRUE
       /\ calls' = Append(calls, [pc |-> "fetch", message |-> message,
                                  at |-> Len(log'), response |-> NoResponse])
       /\ \E id \in SessionIds :
            posts' = Append(posts, [message |-> message, session_id |-> id])
       /\ chatLast' = ChatRan(op, "sent", 0)

\* sendMessage() up to its first await, without the test of isLoading.
SendMessageOnWhileLoading(value, op) ==
  LET message == trim(value) IN
  IF message = <<>>
  THEN /\ messageInput' = value
       /\ chatLast' = ChatRan(op, "rejected", 0)
       /\ UNCHANGED <<chatMessages, log, isLoading, calls, posts>>
  ELSE /\ Len(log) + 1 + MaxReply + Reserved(calls) <= MaxChat
       /\ chatMessages' = addUserMessage(chatMessages, message)
       /\ log' = log \o Appended(chatMessages', chatMessages)
       /\ messageInput' = <<>>
       /\ isLoading' = TRUE
       /\ calls' = Append(calls, [pc |-> "fetch", message |-> message,
                                  at |-> Len(log'), response |-> NoResponse])
       /\ posts' = Append(posts, [message |-> message, session_id |-> sessionId])
       /\ chatLast' = ChatRan(op, "sent", 0)

\* sendMessage() up to its first await, had it cleared the input field before
\* the test of the message and of isLoading.
SendMessageOnClearingFirst(value, op) ==
  LET message == trim(value) IN
  IF message = <<>> \/ isLoading
  THEN /\ messageInput' = <<>>
       /\ chatLast' = ChatRan(op, "rejected", 0)
       /\ UNCHANGED <<chatMessages, log, isLoading, calls, posts>>
  ELSE /\ Len(log) + 1 + MaxReply + Reserved(calls) <= MaxChat
       /\ chatMessages' = addUserMessage(chatMessages, message)
       /\ log' = log \o Appended(chatMessages', chatMessages)
       /\ messageInput' = <<>>
       /\ isLoading' = TRUE
       /\ calls' = Append(calls, [pc |-> "fetch", message |-> message,
                                  at |-> Len(log'), response |-> NoResponse])
       /\ posts' = Append(posts, [message |-> message, session_id |-> sessionId])
       /\ chatLast' = ChatRan(op, "sent", 0)

\* sendMessage() up to its first await, on the input value the caller left.
SendMessageOn(value, op) ==
  LET message == trim(value) IN
  IF message = <<>> \/ isLoading
  THEN /\ messageInput' = value
       /\ chatLast' = ChatRan(op, "rejected", 0)
       /\ UNCHANGED <<chatMessages, log, isLoading, calls, posts>>
  ELSE /\ Len(log) + 1 + MaxReply + Reserved(calls) <= MaxChat
       /\ chatMessages' = addUserMessage(chatMessages, message)
       /\ log' = log \o Appended(chatMessages', chatMessages)
       /\ messageInput' = <<>>
       /\ isLoading' = TRUE
       /\ calls' = Append(calls, [pc |-> "fetch", message |-> message,
                                  at |-> Len(log'), response |-> NoResponse])
       /\ posts' = Append(posts, [message |-> message, session_id |-> sessionId])
       /\ chatLast' = ChatRan(op, "sent", 0)

\* The send button or the Enter key, which setLoading(true) disables.
SendMessage ==
  /\ app = "chat"
  /\ ~isLoading
  /\ SendMessageOn(messageInput, "sendMessage")
  /\ UNCHANGED <<cartVars, serverVars, filterVars, sessionId, health, errorModal, quickTimers>>

\* A click on a quick-action button: startChat(), and a timer of 300 ms.
QuickClick ==
  /\ app = "chat"
  /\ quickTimers < MaxQuick
  /\ Len(log) + 1 + Reserved(calls) <= MaxChat
  /\ chatMessages' = addBotMessage(chatMessages, Welcome)
  /\ log' = log \o Appended(chatMessages', chatMessages)
  /\ quickTimers' = quickTimers + 1
  /\ chatLast' = ChatRan("quickClick", "done", 0)
  /\ UNCHANGED <<cartVars, serverVars, filterVars, sessionId, posts, health, messageInput,
                 isLoading, errorModal, calls>>

\* The timer of a quick-action button fires: the question goes into the
\* input field, then sendMessage().
QuickTimer ==
  /\ app = "chat"
  /\ quickTimers > 0
  /\ quickTimers' = quickTimers - 1
  /\ SendMessageOn(Question, "quickTimer")
  /\ UNCHANGED <<cartVars, serverVars, filterVars, sessionId, health, errorModal>>

\* The catch block of the call i of sendMessage(), had it no finally block
\* behind it.
CatchWithoutFinally(i, op, msgs) ==
  LET caught == sendMessageCatch(msgs) IN
  /\ chatMessages' = caught.chatMessages
  /\ log' = log \o Appended(chatMessages', chatMessages)
  /\ errorModal' = caught.errorModal
  /\ isLoading' = isLoading
  /\ calls' = Without(calls, i)
  /\ chatLast' = ChatRan(op, "failed", Len(calls[i].response.messages))

\* The catch and finally blocks of the call i of sendMessage(), on the list
\* msgs the try block left.
CatchAndFinally(i, op, msgs) ==
  LET caught == sendMessageCatch(msgs) IN
  /\ chatMessages' = caught.chatMessages
  /\ log' = log \o Appended(chatMessages', chatMessages)
  /\ errorModal' = caught.errorModal
  /\ isLoading' = FALSE
  /\ calls' = Without(calls, i)
  /\ chatLast' = ChatRan(op, "failed", Len(calls[i].response.messages))

\* fetch() resolves with a response.
FetchResolve(i, body) ==
  /\ app = "chat"
  /\ i \in 1 .. Len(calls)
  /\ calls[i].pc = "fetch"
  /\ calls' = [calls EXCEPT ![i].pc = "json", ![i].response = body]
  /\ chatLast' = ChatRan("fetchResolve", "done", 0)
  /\ UNCHANGED <<cartVars, serverVars, filterVars, sessionId, posts, health, chatMessages,
                 log, messageInput, isLoading, errorModal, quickTimers>>

\* fetch() rejects: a network error.
FetchReject(i) ==
  /\ app = "chat"
  /\ i \in 1 .. Len(calls)
  /\ calls[i].pc = "fetch"
  /\ CatchAndFinally(i, "fetchReject", chatMessages)
  /\ UNCHANGED <<cartVars, serverVars, filterVars, sessionId, posts, health, messageInput,
                 quickTimers>>

\* response.json() resolves with the parsed data.
JsonResolve(i) ==
  /\ app = "chat"
  /\ i \in 1 .. Len(calls)
  /\ calls[i].pc = "json"
  /\ calls[i].response.parsable
  /\ LET tried == sendMessageTry(chatMessages, calls[i].response) IN
     IF tried.threw
     THEN CatchAndFinally(i, "jsonResolve", tried.chatMessages)
     ELSE /\ chatMessages' = tried.chatMessages
          /\ log' = log \o Appended(chatMessages', chatMessages)
          /\ isLoading' = FALSE
          /\ calls' = Without(calls, i)
          /\ chatLast' = ChatRan("jsonResolve", "replied",
                                 Len(calls[i].response.messages))
          /\ UNCHANGED errorModal
  /\ UNCHANGED <<cartVars, serverVars, filterVars, sessionId, posts, health, messageInput,
                 quickTimers>>

\* response.json() rejects: the body is no JSON.
JsonReject(i) ==
  /\ app = "chat"
  /\ i \in 1 .. Len(calls)
  /\ calls[i].pc = "json"
  /\ ~calls[i].response.parsable
  /\ CatchAndFinally(i, "jsonReject", chatMessages)
  /\ UNCHANGED <<cartVars, serverVars, filterVars, sessionId, posts, health, messageInput,
                 quickTimers>>

\* hideErrorModal(): the two close buttons and a click beside the modal.
HideErrorModal ==
  /\ app = "chat"
  /\ errorModal
  /\ errorModal' = FALSE
  /\ chatLast' = ChatRan("hideErrorModal", "done", 0)
  /\ UNCHANGED <<cartVars, serverVars, filterVars, sessionId, posts, health, chatMessages,
                 log, messageInput, isLoading, calls, quickTimers>>

\* retryConnection(), had it sent the failed message again.
RetryConnectionResending ==
  /\ app = "chat"
  /\ errorModal
  /\ errorModal' = FALSE
  /\ posts # <<>>
  /\ posts' = Append(posts, posts[Len(posts)])
  /\ chatLast' = ChatRan("retryConnection", "done", 0)
  /\ UNCHANGED <<cartVars, serverVars, filterVars, sessionId, health, chatMessages, log,
                 messageInput, isLoading, calls, quickTimers>>

\* retryConnection(): hides the modal and checks the health of the server.
RetryConnection ==
  /\ app = "chat"
  /\ errorModal
  /\ health < MaxHealth
  /\ errorModal' = FALSE
  /\ health' = health + 1
  /\ chatLast' = ChatRan("retryConnection", "done", 0)
  /\ UNCHANGED <<cartVars, serverVars, filterVars, sessionId, posts, chatMessages, log,
                 messageInput, isLoading, calls, quickTimers>>

\* The language selector changes: currentLanguage, which nothing but the
\* console line of updateLanguage() reads, is not kept.
ChangeLanguage ==
  /\ app = "chat"
  /\ chatLast' = ChatRan("updateLanguage", "done", 0)
  /\ UNCHANGED <<cartVars, serverVars, filterVars, sessionId, posts, health, chatMessages,
                 log, messageInput, isLoading, errorModal, calls, quickTimers>>

\* checkServerHealth() gets its answer, or fails: a line on the console.
HealthSettle ==
  /\ app = "chat"
  /\ health > 0
  /\ health' = health - 1
  /\ UNCHANGED <<cartVars, serverVars, filterVars, sessionId, posts, chatMessages, log,
                 messageInput, isLoading, errorModal, calls, quickTimers, chatLast>>

\* ==================================================== the Flask application
\* A POST to /api/chat: a body that is no JSON, or a JSON object that may
\* lack the message and the session_id.
Requests ==
  {[isJson |-> FALSE, hasMessage |-> FALSE, message |-> <<>>,
    hasSession |-> FALSE, session_id |-> ""]}
    \cup {[isJson |-> TRUE, hasMessage |-> TRUE, message |-> m,
           hasSession |-> TRUE, session_id |-> id] :
            m \in {<<"h">>, Question}, id \in SessionIds \cup {"test_session"}}
    \cup {[isJson |-> TRUE, hasMessage |-> FALSE, message |-> <<>>,
           hasSession |-> hs, session_id |-> IF hs THEN "session_1" ELSE ""] :
            hs \in BOOLEAN}

\* What the Rasa webhook does with the payload: requests.post() raises, or
\* it answers with a status and, when the status is 200, a list of
\* responses, each with or without a text.
RasaResponses ==
  SeqsUpTo({[hasText |-> TRUE, text |-> c] : c \in Contents}
             \cup {[hasText |-> FALSE, text |-> <<>>]}, MaxReply)

RasaOutcomes ==
  {[raised |-> TRUE, status_code |-> 0, json |-> <<>>]}
    \cup {[raised |-> FALSE, status_code |-> 503, json |-> <<>>]}
    \cup [raised : {FALSE}, status_code : {200}, json : RasaResponses]

\* data.get(key, default)
dataGet(has, value, default) == IF has THEN value ELSE default

\* The payload chat() prepares for Rasa.
rasaPayload(req) ==
  [sender |-> dataGet(req.hasSession, req.session_id, "default"),
   message |-> dataGet(req.hasMessage, req.message, <<>>)]

\* The loop over bot_responses, had it not tested for the text.
textMessagesOfAll(bot_responses) ==
  [k \in 1 .. Len(bot_responses) |-> [type |-> "bot", content |-> bot_responses[k].text]]

\* for response in bot_responses: if 'text' in response: messages.append(...)
RECURSIVE textMessages(_)
textMessages(bot_responses) ==
  IF bot_responses = <<>> THEN <<>>
  ELSE ( IF Head(bot_responses).hasText
         THEN <<[type |-> "bot", content |-> Head(bot_responses).text]>>
         ELSE <<>> ) \o textMessages(Tail(bot_responses))

\* What Flask answers: the status, and the body: no JSON at all, or a JSON
\* object with or without the keys success, messages and error.
Answer(status, isJson, hasSuccess, messages, hasMessages, hasError) ==
  [status |-> status, isJson |-> isJson, hasSuccess |-> hasSuccess,
   success |-> hasSuccess, hasMessages |-> hasMessages, messages |-> messages,
   hasError |-> hasError]

\* return jsonify({'error': str(e)}), 500
errorAnswer == Answer(500, TRUE, FALSE, <<>>, FALSE, TRUE)

\* The view function returned None: Flask answers 500 with its error page.
noneAnswer == Answer(500, FALSE, FALSE, <<>>, FALSE, FALSE)

\* chat(): the answer to the request req when Rasa does rasa.
chat(req, rasa) ==
  IF ~req.isJson THEN errorAnswer
  ELSE IF rasa.raised THEN errorAnswer
  ELSE IF rasa.status_code = 200
       THEN Answer(200, TRUE, TRUE, textMessages(rasa.json), TRUE, FALSE)
       ELSE noneAnswer

\* Flask handles a POST to /api/chat.
Chat(req, rasa) ==
  /\ app = "server"
  /\ request' = req
  /\ payload' = IF req.isJson THEN rasaPayload(req) ELSE <<>>
  /\ rasa_response' = IF req.isJson THEN rasa ELSE <<>>
  /\ response' = chat(req, rasa)
  /\ UNCHANGED <<cartVars, chatVars, filterVars>>

\* ================================================ the ShopEase product list
\* The products of ShopEase with what the search and the filters read: the
\* price in cents, the rating in tenths, the texts as sequences of characters.
shopDetails ==
  <<
     [id |-> 1, price |-> 8999, rating |-> 45,
      category |-> <<"e", "l", "e", "c", "t", "r", "o", "n", "i", "c", "s">>,
      name |-> <<"W", "i", "r", "e", "l", "e", "s", "s", " ", "B", "l", "u", "e", "t", "o",
        "o", "t", "h", " ", "H", "e", "a", "d", "p", "h", "o", "n", "e", "s">>,
      description |-> <<"H", "i", "g", "h", "-", "q", "u", "a", "l", "i", "t", "y", " ", "w",
        "i", "r", "e", "l", "e", "s", "s", " ", "h", "e", "a", "d", "p", "h", "o", "n", "e",
        "s", " ", "w", "i", "t", "h", " ", "n", "o", "i", "s", "e", " ", "c", "a", "n", "c",
        "e", "l", "l", "a", "t", "i", "o", "n", " ", "a", "n", "d", " ", "l", "o", "n", "g",
        " ", "b", "a", "t", "t", "e", "r", "y", " ", "l", "i", "f", "e", ".">>],
     [id |-> 2, price |-> 19999, rating |-> 43,
      category |-> <<"e", "l", "e", "c", "t", "r", "o", "n", "i", "c", "s">>,
      name |-> <<"S", "m", "a", "r", "t", " ", "F", "i", "t", "n", "e", "s", "s", " ", "W",
        "a", "t", "c", "h">>,
      description |-> <<"A", "d", "v", "a", "n", "c", "e", "d", " ", "f", "i", "t", "n", "e",
        "s", "s", " ", "t", "r", "a", "c", "k", "i", "n", "g", " ", "w", "i", "t", "h", " ",
        "h", "e", "a", "r", "t", " ", "r", "a", "t", "e", " ", "m", "o", "n", "i", "t", "o",
        "r", " ", "a", "n", "d", " ", "G", "P", "S", ".">>],
     [id |-> 3, price |-> 2999, rating |-> 47,
      category |-> <<"c", "l", "o", "t", "h", "i", "n", "g">>,
      name |-> <<"P", "r", "e", "m", "i", "u", "m", " ", "C", "o", "t", "t", "o", "n", " ",
        "T", "-", "S", "h", "i", "r", "t">>,
      description |-> <<"C", "o", "m", "f", "o", "r", "t", "a", "b", "l", "e", " ", "a", "n",
        "d", " ", "s", "t", "y", "l", "i", "s", "h", " ", "c", "o", "t", "t", "o", "n", " ",
        "t", "-", "s", "h", "i", "r", "t", " ", "a", "v", "a", "i", "l", "a", "b", "l", "e",
        " ", "i", "n", " ", "m", "u", "l", "t", "i", "p", "l", "e", " ", "c", "o", "l", "o",
        "r", "s", ".">>],
     [id |-> 4, price |-> 7999, rating |-> 44,
      category |-> <<"c", "l", "o", "t", "h", "i", "n", "g">>,
      name |-> <<"D", "e", "n", "i", "m", " ", "J", "e", "a", "n", "s">>,
      description |-> <<"C", "l", "a", "s", "s", "i", "c", " ", "d", "e", "n", "i", "m", " ",
        "j", "e", "a", "n", "s", " ", "w", "i", "t", "h", " ", "p", "e", "r", "f", "e", "c",
        "t", " ", "f", "i", "t", " ", "a", "n", "d", " ", "d", "u", "r", "a", "b", "i", "l",
        "i", "t", "y", ".">>],
     [id |-> 5, price |-> 29999, rating |-> 46,
      category |-> <<"h", "o", "m", "e">>,
      name |-> <<"M", "o", "d", "e", "r", "n", " ", "C", "o", "f", "f", "e", "e", " ", "T",
        "a", "b", "l", "e">>,
      description |-> <<"E", "l", "e", "g", "a", "n", "t", " ", "c", "o", "f", "f", "e", "e",
        " ", "t", "a", "b", "l", "e", " ", "p", "e", "r", "f", "e", "c", "t", " ", "f", "o",
        "r", " ", "m", "o", "d", "e", "r", "n", " ", "l", "i", "v", "i", "n", "g", " ", "r",
        "o", "o", "m", "s", ".">>],
     [id |-> 6, price |-> 4999, rating |-> 42,
      category |-> <<"h", "o", "m", "e">>,
      name |-> <<"G", "a", "r", "d", "e", "n", " ", "P", "l", "a", "n", "t", " ", "P", "o",
        "t", "s", " ", "S", "e", "t">>,
      description |-> <<"B", "e", "a", "u", "t", "i", "f", "u", "l", " ", "c", "e", "r", "a",
        "m", "i", "c", " ", "p", "l", "a", "n", "t", " ", "p", "o", "t", "s", " ", "f", "o",
        "r", " ", "i", "n", "d", "o", "o", "r", " ", "a", "n", "d", " ", "o", "u", "t", "d",
        "o", "o", "r", " ", "g", "a", "r", "d", "e", "n", "i", "n", "g", ".">>],
     [id |-> 7, price |-> 3999, rating |-> 48,
      category |-> <<"s", "p", "o", "r", "t", "s">>,
      name |-> <<"P", "r", "o", "f", "e", "s", "s", "i", "o", "n", "a", "l", " ", "B", "a",
        "s", "k", "e", "t", "b", "a", "l", "l">>,
      description |-> <<"O", "f", "f", "i", "c", "i", "a", "l", " ", "s", "i", "z", "e", " ",
        "b", "a", "s", "k", "e", "t", "b", "a", "l", "l", " ", "p", "e", "r", "f", "e", "c",
        "t", " ", "f", "o", "r", " ", "i", "n", "d", "o", "o", "r", " ", "a", "n", "d", " ",
        "o", "u", "t", "d", "o", "o", "r", " ", "p", "l", "a", "y", ".">>],
     [id |-> 8, price |-> 5999, rating |-> 45,
      category |-> <<"s", "p", "o", "r", "t", "s">>,
      name |-> <<"Y", "o", "g", "a", " ", "M", "a", "t", " ", "P", "r", "e", "m", "i", "u",
        "m">>,
      description |-> <<"N", "o", "n", "-", "s", "l", "i", "p", " ", "y", "o", "g", "a", " ",
        "m", "a", "t", " ", "w", "i", "t", "h", " ", "c", "a", "r", "r", "y", "i", "n", "g",
        " ", "s", "t", "r", "a", "p", " ", "f", "o", "r", " ", "a", "l", "l", " ", "t", "y",
        "p", "e", "s", " ", "o", "f", " ", "y", "o", "g", "a", ".">>],
     [id |-> 9, price |-> 4599, rating |-> 41,
      category |-> <<"e", "l", "e", "c", "t", "r", "o", "n", "i", "c", "s">>,
      name |-> <<"L", "a", "p", "t", "o", "p", " ", "S", "t", "a", "n", "d">>,
      description |-> <<"A", "d", "j", "u", "s", "t", "a", "b", "l", "e", " ", "l", "a", "p",
        "t", "o", "p", " ", "s", "t", "a", "n", "d", " ", "f", "o", "r", " ", "b", "e", "t",
        "t", "e", "r", " ", "e", "r", "g", "o", "n", "o", "m", "i", "c", "s", " ", "a", "n",
        "d", " ", "c", "o", "o", "l", "i", "n", "g", ".">>],
     [id |-> 10, price |-> 3499, rating |-> 44,
      category |-> <<"e", "l", "e", "c", "t", "r", "o", "n", "i", "c", "s">>,
      name |-> <<"W", "i", "r", "e", "l", "e", "s", "s", " ", "M", "o", "u", "s", "e">>,
      description |-> <<"E", "r", "g", "o", "n", "o", "m", "i", "c", " ", "w", "i", "r", "e",
        "l", "e", "s", "s", " ", "m", "o", "u", "s", "e", " ", "w", "i", "t", "h", " ", "p",
        "r", "e", "c", "i", "s", "i", "o", "n", " ", "t", "r", "a", "c", "k", "i", "n", "g",
        ".">>],
     [id |-> 11, price |-> 12999, rating |-> 46,
      category |-> <<"c", "l", "o", "t", "h", "i", "n", "g">>,
      name |-> <<"C", "a", "s", "u", "a", "l", " ", "B", "l", "a", "z", "e", "r">>,
      description |-> <<"V", "e", "r", "s", "a", "t", "i", "l", "e", " ", "b", "l", "a", "z",
        "e", "r", " ", "p", "e", "r", "f", "e", "c", "t", " ", "f", "o", "r", " ", "b", "o",
        "t", "h", " ", "c", "a", "s", "u", "a", "l", " ", "a", "n", "d", " ", "f", "o", "r",
        "m", "a", "l", " ", "o", "c", "c", "a", "s", "i", "o", "n", "s", ".">>],
     [id |-> 12, price |-> 11999, rating |-> 47,
      category |-> <<"s", "p", "o", "r", "t", "s">>,
      name |-> <<"R", "u", "n", "n", "i", "n", "g", " ", "S", "h", "o", "e", "s">>,
      description |-> <<"L", "i", "g", "h", "t", "w", "e", "i", "g", "h", "t", " ", "r", "u",
        "n", "n", "i", "n", "g", " ", "s", "h", "o", "e", "s", " ", "w", "i", "t", "h", " ",
        "e", "x", "c", "e", "l", "l", "e", "n", "t", " ", "c", "u", "s", "h", "i", "o", "n",
        "i", "n", "g", " ", "a", "n", "d", " ", "s", "u", "p", "p", "o", "r", "t", ".">>] >>

\* The data-category values of the category cards.
all == <<"a", "l", "l">>
electronics == <<"e", "l", "e", "c", "t", "r", "o", "n", "i", "c", "s">>
clothing == <<"c", "l", "o", "t", "h", "i", "n", "g">>
Categories == {all, electronics, clothing}

\* What the user types into the search field, the positions of the price
\* slider (in cents) and the options of the sort select.
SearchValues ==
  {<<>>, <<"W", "a", "t", "c", "h">>, <<" ", "c", "o", "t", "t", "o", "n">>,
   <<"x", "y", "z">>}
PriceValues == {5000, 10000, 12000, 50000}
SortValues == {"default", "price-low", "price-high", "name", "rating"}

productsPerPage == 8

\* String.prototype.toLowerCase() on the letters the catalog and the search
\* terms are written in.
UpperCase ==
  <<"A", "B", "C", "D", "E", "F", "G", "H", "I", "J", "K", "L", "M",
    "N", "O", "P", "Q", "R", "S", "T", "U", "V", "W", "X", "Y", "Z">>

LowerCase ==
  <<"a", "b", "c", "d", "e", "f", "g", "h", "i", "j", "k", "l", "m",
    "n", "o", "p", "q", "r", "s", "t", "u", "v", "w", "x", "y", "z">>

toLowerCase(s) ==
  [i \in 1 .. Len(s) |->
     IF \E k \in 1 .. Len(UpperCase) : UpperCase[k] = s[i]
     THEN LowerCase[CHOOSE k \in 1 .. Len(UpperCase) : UpperCase[k] = s[i]]
     ELSE s[i]]

\* String.prototype.includes()
includes(s, t) ==
  \E i \in 1 .. Len(s) - Len(t) + 1 : SubSeq(s, i, i + Len(t) - 1) = t

\* Array.prototype.slice(start, end), start and end counted from 0.
slice(s, start, end) ==
  SubSeq(s, start + 1, IF end < Len(s) THEN end ELSE Len(s))

\* The rank of a character in the order the names are compared in.
CharRank(c) ==
  IF c = " " THEN 0
  ELSE IF c = "-" THEN 1
  ELSE IF \E k \in 1 .. Len(LowerCase) : LowerCase[k] = c
       THEN 1 + (CHOOSE k \in 1 .. Len(LowerCase) : LowerCase[k] = c)
       ELSE 30

\* a.localeCompare(b) < 0, for the names of the catalog.
RECURSIVE comesBefore(_, _)
comesBefore(a, b) ==
  IF b = <<>> THEN FALSE
  ELSE IF a = <<>> THEN TRUE
  ELSE IF CharRank(Head(a)) # CharRank(Head(b)) THEN CharRank(Head(a)) < CharRank(Head(b))
  ELSE comesBefore(Tail(a), Tail(b))

localeCompareBefore(a, b) == comesBefore(toLowerCase(a), toLowerCase(b))

\* The comparison function of applyFilters' sort: a goes before b.
sortsBefore(sortBy, a, b) ==
  IF sortBy = "price-low" THEN a.price < b.price
  ELSE IF sortBy = "price-high" THEN b.price < a.price
  ELSE IF sortBy = "name" THEN localeCompareBefore(a.name, b.name)
  ELSE IF sortBy = "rating" THEN b.rating < a.rating
  ELSE FALSE

\* Array.prototype.sort(), which is stable: x goes behind the last element
\* that does not have to come after it.
RECURSIVE insertSorted(_, _, _)
insertSorted(sorted, x, sortBy) ==
  IF sorted = <<>> THEN <<x>>
  ELSE IF sortsBefore(sortBy, x, Head(sorted)) THEN <<x>> \o sorted
  ELSE <<Head(sorted)>> \o insertSorted(Tail(sorted), x, sortBy)

RECURSIVE sortProducts(_, _)
sortProducts(s, sortBy) ==
  IF s = <<>> THEN <<>>
  ELSE insertSorted(sortProducts(SubSeq(s, 1, Len(s) - 1), sortBy), s[Len(s)], sortBy)

\* The test of performSearch()'s filter.
matchesSearch(product, searchTerm) ==
  \/ includes(toLowerCase(product.name), searchTerm)
  \/ includes(toLowerCase(product.description), searchTerm)
  \/ includes(toLowerCase(product.category), searchTerm)

\* performSearch(): the new filteredProducts.
performSearch(value) ==
  LET searchTerm == trim(toLowerCase(value)) IN
  IF searchTerm = <<>> THEN shopDetails
  ELSE SelectSeq(shopDetails, LAMBDA product : matchesSearch(product, searchTerm))

\* applyFilters(): the new filteredProducts.
applyFilters(sortBy, maxPrice) ==
  sortProducts(SelectSeq(shopDetails, LAMBDA product : product.price <= maxPrice), sortBy)

\* filterByCategory(): the new filteredProducts.
filterByCategory(ctg) ==
  IF ctg = all THEN shopDetails
  ELSE SelectSeq(shopDetails, LAMBDA product : product.category = ctg)

\* The identifiers of a list of products.
IdsOf(s) == [i \in 1 .. Len(s) |-> s[i].id]

\* loadProducts(), with currentPage = 1: the grid shows the first page.
loadProducts(filtered) == IdsOf(slice(filtered, 0, productsPerPage))

\* updateLoadMoreButton(): the button is displayed.
loadMoreShown(filtered, page) ==
  page * productsPerPage < Len(filtered)

\* The search button or Enter in the search field, on the value typed.
PerformSearch(value) ==
  /\ app = "shop"
  /\ searchInput' = value
  /\ filteredProducts' = IdsOf(performSearch(value))
  /\ currentPage' = 1
  /\ productsGrid' = loadProducts(performSearch(value))
  /\ UNCHANGED <<cartVars, chatVars, serverVars, activeCategory, priceRange, sortSelect>>

\* The price slider moves: applyFilters().
SetPriceRange(maxPrice) ==
  /\ app = "shop"
  /\ priceRange' = maxPrice
  /\ filteredProducts' = IdsOf(applyFilters(sortSelect, maxPrice))
  /\ currentPage' = 1
  /\ productsGrid' = loadProducts(applyFilters(sortSelect, maxPrice))
  /\ UNCHANGED <<cartVars, chatVars, serverVars, searchInput, activeCategory, sortSelect>>

\* The sort select changes: applyFilters().
SetSort(sortBy) ==
  /\ app = "shop"
  /\ sortSelect' = sortBy
  /\ filteredProducts' = IdsOf(applyFilters(sortBy, priceRange))
  /\ currentPage' = 1
  /\ productsGrid' = loadProducts(applyFilters(sortBy, priceRange))
  /\ UNCHANGED <<cartVars, chatVars, serverVars, searchInput, activeCategory, priceRange>>

\* A click on a category card: filterByCategory(category), which also makes
\* the category's navigation link the active one.
FilterByCategory(ctg) ==
  /\ app = "shop"
  /\ activeCategory' = ctg
  /\ filteredProducts' = IdsOf(filterByCategory(ctg))
  /\ currentPage' = 1
  /\ productsGrid' = loadProducts(filterByCategory(ctg))
  /\ UNCHANGED <<cartVars, chatVars, serverVars, searchInput, priceRange, sortSelect>>

\* loadMoreProducts(), had it taken the slice before it counted the page.
LoadMoreProductsAgain ==
  /\ app = "shop"
  /\ loadMoreShown(filteredProducts, currentPage)
  /\ currentPage' = currentPage + 1
  /\ productsGrid' = productsGrid \o slice(filteredProducts,
                                           (currentPage - 1) * productsPerPage,
                                           currentPage * productsPerPage)
  /\ UNCHANGED <<cartVars, chatVars, serverVars, searchInput, activeCategory, priceRange,
                 sortSelect, filteredProducts>>

\* loadMoreProducts(): the button is there while pages are left.
LoadMoreProducts ==
  /\ app = "shop"
  /\ loadMoreShown(filteredProducts, currentPage)
  /\ currentPage' = currentPage + 1
  /\ productsGrid' = productsGrid \o slice(filteredProducts, currentPage * productsPerPage,
                                           (currentPage + 1) * productsPerPage)
  /\ UNCHANGED <<cartVars, chatVars, serverVars, searchInput, activeCategory, priceRange,
                 sortSelect, filteredProducts>>

\* ---------------------------------------------------------- specifications
\* F: what may go wrong in a handler; Ids, Ds, Qs: the arguments tried.
MiniNext(F, Ids, Ds, Qs) ==
  \/ \E t \in Tabs, id \in Ids, d \in Ds, f \in F : MiniAddToCart(t, id, d, f)
  \/ \E t \in Tabs, id \in Ids, q \in Qs, f \in F : MiniSetQuantity(t, id, q, f)
  \/ \E t \in Tabs, id \in Ids, f \in F : MiniRemoveFromCart(t, id, f)
  \/ \E t \in Tabs : MiniReload(t)

SiteNext(F, Ids, Ds) ==
  \/ \E id \in Ids, f \in F : SiteAddToCart(id, f)
  \/ \E id \in Ids, f \in F : SiteRemoveFromCart(id, f)
  \/ \E id \in Ids, d \in Ds, f \in F : SiteUpdateQuantity(id, d, f)
  \/ \E f \in F : SiteHandleCheckout(f)
  \/ SiteReload

ShopNext(F, Ids, Ds) ==
  \/ \E id \in Ids, f \in F : ShopAddToCart(id, f)
  \/ \E id \in Ids, f \in F : ShopRemoveFromCart(id, f)
  \/ \E id \in Ids, d \in Ds, f \in F : ShopUpdateQuantity(id, d, f)
  \/ \E f \in F : ShopClearCartItems(f)
  \/ ShopCheckout
  \/ \E f \in F : ShopCheckoutTimeout(f)
  \/ \E user \in {"Demo User", "New User"} : ShopLogin(user)
  \/ ShopLogout
  \/ ShopReload

\* One page, and no handler throws.
CartApps == {"mini", "site", "shop"}
Init == InitCart(CartApps, {1}) /\ NoChat /\ NoRequest /\ PageLoadFilter
Next ==
  \/ MiniNext({"none"}, MiniIds, Deltas, Quantities)
  \/ SiteNext({"none"}, ArrayIds, Deltas)
  \/ ShopNext({"none"}, ArrayIds, Deltas)
Spec == Init /\ [][Next]_vars

\* One page, and setItem or the rendering may throw; the buttons of the
\* page are what calls the handlers.
NextFault ==
  \/ MiniNext(Faults, MiniIds \ {"zz"}, {-1, 1}, {0})
  \/ SiteNext(Faults, ArrayIds \ {99}, {-1, 1})
  \/ ShopNext(Faults, ArrayIds \ {99}, {-1, 1})
SpecFault == Init /\ [][NextFault]_vars

\* Two tabs show the mini page over one local storage; the buttons of the
\* page are what calls the handlers.
InitTabs == InitCart({"mini"}, {1, 2}) /\ NoChat /\ NoRequest /\ PageLoadFilter
NextTabs == MiniNext({"none"}, MiniIds \ {"zz"}, {-1, 1}, {0})
SpecTabs == InitTabs /\ [][NextTabs]_vars

\* The chat page: the user, the timers and the network take turns.
InitChatPage == InitCart({"chat"}, {1}) /\ InitChat /\ NoRequest /\ PageLoadFilter
NextChat ==
  \/ StartChat
  \/ ShowWelcome
  \/ \E value \in TypedInputs : TypeInput(value)
  \/ SendMessage
  \/ QuickClick
  \/ QuickTimer
  \/ \E i \in 1 .. Len(calls), body \in Bodies : FetchResolve(i, body)
  \/ \E i \in 1 .. Len(calls) : FetchReject(i)
  \/ \E i \in 1 .. Len(calls) : JsonResolve(i)
  \/ \E i \in 1 .. Len(calls) : JsonReject(i)
  \/ HideErrorModal
  \/ RetryConnection
  \/ ChangeLanguage
  \/ HealthSettle
SpecChat == InitChatPage /\ [][NextChat]_vars

\* The chat page with a network that answers: a pending fetch() settles, and
\* the body of a response that arrived is parsed or found unparsable; the
\* continuation of an await runs once its promise has settled.  One session
\* identifier stands for all: no handler reads it but to copy it into a request.
InitChatFair == InitChatPage /\ sessionId = "session_1"
FetchSettles ==
  \E i \in 1 .. Len(calls) :
    \/ \E body \in Bodies : FetchResolve(i, body)
    \/ FetchReject(i)
JsonSettles == \E i \in 1 .. Len(calls) : JsonResolve(i) \/ JsonReject(i)
SpecChatFair ==
  InitChatFair /\ [][NextChat]_vars /\ WF_vars(FetchSettles) /\ WF_vars(JsonSettles)

\* The Flask application: requests arrive, and Rasa answers as it likes.
InitServer == InitCart({"server"}, {1}) /\ NoChat /\ NoRequest /\ PageLoadFilter
NextServer == \E req \in Requests, rasa \in RasaOutcomes : Chat(req, rasa)
SpecServer == InitServer /\ [][NextServer]_vars

\* The product list of ShopEase: the user searches, filters and pages.
InitFilter == InitCart({"shop"}, {1}) /\ NoChat /\ NoRequest /\ PageLoadFilter
NextFilter ==
  \/ \E value \in SearchValues : PerformSearch(value)
  \/ \E maxPrice \in PriceValues : SetPriceRange(maxPrice)
  \/ \E sortBy \in SortValues : SetSort(sortBy)
  \/ \E ctg \in Categories : FilterByCategory(ctg)
  \/ LoadMoreProducts
SpecFilter == InitFilter /\ [][NextFilter]_vars

\* ================================================================== claims
AllIds == IF app = "mini" THEN MiniIds ELSE ArrayIds

\* The number of entries of the cart c for id.
Entries(c, id) == Cardinality({i \in 1 .. Len(c) : c[i].id = id})

\* The sum, over the products of the page, of the price times the quantity
\* the cart holds for the product.
SumOfEntries(c) ==
  SumSeq([i \in 1 .. Len(products) |-> products[i].price * Lookup(c, products[i].id)])

\* C1: in the mapping cart, after any calls of addToCart, setQuantity and
\* removeFromCart, getCartTotal() is the sum over the entries of the cart of
\* the product's price times the entry's quantity (an entry whose identifier
\* no product has is an entry without a price and adds nothing).
C1_TotalIsSum ==
  app = "mini" => \A t \in open : getCartTotal(cart[t]) = SumOfEntries(cart[t])

C1_Witness ==
  /\ app = "mini"
  /\ last.op \in {"addToCart", "setQuantity", "removeFromCart"}
  /\ Len(cart[1]) >= 2
  /\ Lookup(cart[1], "p1") = 2 /\ Lookup(cart[1], "p2") = 1
  /\ getCartTotal(cart[1]) = 2 * 4999 + 7950

\* C2: from an empty cart, whatever add (positive or negative delta),
\* setQuantity, updateQuantity and remove calls are made, every quantity
\* held in a cart is an integer >= 1.
C2_QuantitiesPositive ==
  \A t \in open : \A i \in 1 .. Len(cart[t]) :
    cart[t][i].quantity \in Int /\ cart[t][i].quantity >= 1

C2_Witness ==
  /\ last.op \in {"addToCart", "updateQuantity"}
  /\ last.arg = -2 /\ last.was = 1
  /\ FindIndex(cart[1], last.id) = 0
  /\ Len(cart[1]) >= 1

\* C3: from a cart with no entry for p, n >= 1 calls of addToCart(p) in a row
\* leave exactly one entry for p, of quantity n.
C3_AddNTimes ==
  streak.n >= 1 =>
    /\ Entries(cart[last.tab], streak.id) = 1
    /\ Lookup(cart[last.tab], streak.id) = streak.n

C3_Witness ==
  /\ streak.n = 2
  /\ last.op = "addToCart"
  /\ Lookup(cart[1], streak.id) = 2

\* C4: a decrement by one (addToCart(p, -1) on the mapping cart,
\* updateQuantity(p, -1) on the array carts) of an entry of quantity 1 removes
\* the entry of p from the in-memory cart and from the stored blob, and every
\* other entry keeps its quantity, in memory and in the blob.
C4_DecrementToZeroRemoves ==
  [][\A t \in Tabs, id \in AllIds :
       ( /\ last'.op \in {"addToCart", "updateQuantity"}
         /\ last'.arg = -1 /\ last'.tab = t /\ last'.id = id
         /\ Lookup(cart[t], id) = 1 )
       => /\ Entries(cart'[t], id) = 0
          /\ Entries(Load(app, blob'), id) = 0
          /\ \A o \in AllIds \ {id} :
               /\ Lookup(cart'[t], o) = Lookup(cart[t], o)
               /\ Lookup(Load(app, blob'), o) = Lookup(cart[t], o)]_vars

C4_Witness ==
  /\ last.op \in {"addToCart", "updateQuantity"}
  /\ last.arg = -1 /\ last.was = 1
  /\ Entries(cart[1], last.id) = 0
  /\ Entries(Load(app, blob), last.id) = 0
  /\ Len(cart[1]) >= 1

\* C5: a reload of the page yields an in-memory cart identical to the cart as
\* of the last save: the same identifiers with the same quantities.
C5_ReloadRestores ==
  \A t \in open : (last.op = "reload" /\ last.tab = t) => cart[t] = savedCart

C5_Witness ==
  /\ last.op = "reload"
  /\ Len(cart[1]) = 2
  /\ cart[1] = savedCart
  /\ blob # <<>>

\* C6: every cart mutation is persisted at once: between two events the
\* stored blob is the serialization of the in-memory cart (and no blob is
\* stored only while the cart is still empty).
C6_Persisted ==
  \A t \in open :
    IF blob = <<>> THEN cart[t] = <<>> ELSE blob = Stringify(app, cart[t])

C6_Witness ==
  /\ last.op = "checkoutDone"
  /\ cart[1] = <<>>
  /\ blob = <<"[", "]">>

\* C7 (as claimed): a cart mutation never takes effect partially: when
\* setItem or the rendering throws, the in-memory cart, the stored blob and
\* the displayed cart are as before the operation; otherwise a changed cart
\* is the one stored and displayed.
C7_NoPartialEffect ==
  [][IF last'.fault # "none"
     THEN cart' = cart /\ blob' = blob /\ shown' = shown
     ELSE \A t \in open :
            cart'[t] # cart[t] =>
              /\ blob' = Stringify(app, cart'[t])
              /\ shown'[t] = Render(app, cart'[t])]_vars

\* C8 (as claimed): with two tabs on one storage key, the stored cart holds
\* the effect of every mutation made by either tab: it is the cart that the
\* calls of both tabs, in their order, make of one cart.
C8_NoLostUpdate ==
  \A id \in MiniIds : Lookup(loadCart(blob), id) = Lookup(ideal, id)

\* The bot messages of the texts of a list of messages of a response.
BotMessages(messages) ==
  [k \in 1 .. Len(messages) |-> [role |-> "bot", content |-> messages[k].content]]

\* The step ends the call i of sendMessage().
Ends(i) == i \in 1 .. Len(calls) /\ calls' = Without(calls, i)

\* C9: when the parsed response of a chat request has success true, the step
\* that handles it appends to the message list one bot message per element
\* of the response's messages, in their order, behind everything the list
\* holds and later than the call's own user message, appends no fallback
\* message and does not open the error modal.
C9_SuccessRendersEach ==
  [][\A i \in 1 .. Len(calls) :
       ( /\ Ends(i)
         /\ calls[i].pc = "json"
         /\ calls[i].response.parsable
         /\ calls[i].response.success )
       => /\ chatMessages' = chatMessages \o BotMessages(calls[i].response.messages)
          /\ log' = log \o BotMessages(calls[i].response.messages)
          /\ calls[i].at \in 1 .. Len(log)
          /\ log[calls[i].at] = [role |-> "user", content |-> calls[i].message]
          /\ \A k \in Len(chatMessages) + 1 .. Len(chatMessages') :
               chatMessages'[k].content # Fallback
          /\ errorModal' = errorModal]_vars

C9_Witness ==
  /\ chatLast.op = "jsonResolve" /\ chatLast.outcome = "replied" /\ chatLast.n = 2
  /\ Len(chatMessages) >= 3
  /\ chatMessages[Len(chatMessages) - 2].role = "user"
  /\ chatMessages[Len(chatMessages) - 1] = [role |-> "bot", content |-> <<"a">>]
  /\ chatMessages[Len(chatMessages)] = [role |-> "bot", content |-> <<"b">>]
  /\ ~errorModal

\* C10: when a chat request fails (fetch rejects, the body does not parse,
\* or the parsed body's success flag is not true), the step that handles the
\* failure shows the error modal and appends exactly one bot message, the
\* fallback, and none of the messages of the response.
C10_FailureShowsFallback ==
  [][\A i \in 1 .. Len(calls) :
       ( /\ Ends(i)
         /\ \/ calls[i].pc = "fetch"
            \/ calls[i].pc = "json" /\ ~calls[i].response.parsable
            \/ calls[i].pc = "json" /\ ~calls[i].response.success )
       => /\ errorModal'
          /\ chatMessages' = Append(chatMessages, [role |-> "bot", content |-> Fallback])]_vars

C10_Witness ==
  /\ chatLast.op = "jsonResolve" /\ chatLast.outcome = "failed" /\ chatLast.n = 2
  /\ errorModal
  /\ Len(chatMessages) >= 2
  /\ chatMessages[Len(chatMessages) - 1].role = "user"
  /\ chatMessages[Len(chatMessages)] = [role |-> "bot", content |-> Fallback]

\* The texts of the user messages of a list of messages, in order.
UserTexts(msgs) ==
  LET users == SelectSeq(msgs, LAMBDA m : m.role = "user")
  IN  [k \in 1 .. Len(users) |-> users[k].content]

\* C11: there is no retry: the POSTs to /api/chat are, one for one and in
\* order, the user messages ever appended; no failure, no error handling
\* and no retryConnection() adds a POST.
C11_PostedOnce ==
  UserTexts(log) = [j \in 1 .. Len(posts) |-> posts[j].message]

C11_Witness ==
  /\ chatLast.op = "retryConnection"
  /\ \E k \in 1 .. Len(log) : log[k].content = Fallback
  /\ Len(posts) = 1
  /\ calls = <<>>
  /\ health = 1

\* The list msgs1 still starts with the messages of msgs, in their order.
KeepsMessages(msgs, msgs1) ==
  Len(msgs1) >= Len(msgs) /\ SubSeq(msgs1, 1, Len(msgs)) = msgs

\* C12 (as claimed): the message list is append-only: no step of the chat
\* client removes or reorders a message that is in the list.
C12_AppendOnly == [][KeepsMessages(chatMessages, chatMessages')]_vars

\* C12 (amended): showWelcome() empties the message list; every other step
\* of the chat client keeps the messages of the list, in their order, and
\* at most appends to them.
C12_AppendOnlyButShowWelcome ==
  [][IF chatLast'.op = "showWelcome" /\ chatLast' # chatLast
     THEN chatMessages' = <<>>
     ELSE KeepsMessages(chatMessages, chatMessages')]_vars

C12_Witness ==
  /\ chatLast.op = "showWelcome"
  /\ chatMessages = <<>>
  /\ Len(log) >= 3

\* C13: the session identifier made by the constructor never changes, and
\* every POST to /api/chat carries it, whatever startChat, showWelcome and
\* sendMessage calls are made.
C13_OneSessionId ==
  [][/\ sessionId' = sessionId
     /\ \A j \in 1 .. Len(posts') : posts'[j].session_id = sessionId]_vars

C13_Witness ==
  /\ Len(posts) = 2
  /\ posts[1].session_id = sessionId /\ posts[2].session_id = sessionId
  /\ Len(chatMessages) < Len(log)
  /\ \E k \in 1 .. Len(log) : log[k].content = Welcome

\* C14: at most one request to /api/chat is in flight: no step leaves two
\* calls of sendMessage() waiting, and a quick-action timer that fires
\* while a request is pending posts nothing and starts no call.
C14_OneInFlight ==
  [][/\ Len(calls') <= 1
     /\ (quickTimers' < quickTimers /\ calls # <<>>) =>
          posts' = posts /\ calls' = calls]_vars

C14_Witness ==
  /\ chatLast.op = "quickTimer" /\ chatLast.outcome = "rejected"
  /\ Len(calls) = 1
  /\ Len(posts) = 1
  /\ messageInput = Question

\* C15 (as claimed): every response of POST /api/chat is a JSON object that
\* carries a success flag and a messages list, whether Rasa answered 200,
\* answered another status, or the call raised.
C15_AlwaysSuccessAndMessages ==
  response # <<>> =>
    response.isJson /\ response.hasSuccess /\ response.hasMessages

\* C16 (as claimed): for any message and session_id, a POST to /api/chat is
\* answered with status 200, success true and at least one message.
C16_AlwaysOneMessage ==
  (response # <<>> /\ request.isJson /\ request.hasMessage /\ request.hasSession) =>
    /\ response.status = 200
    /\ response.hasSuccess /\ response.success
    /\ response.hasMessages /\ Len(response.messages) >= 1

\* C17 (as claimed): in ShopEase only a logged-in user completes a
\* purchase: checkout() on a filled cart with no user logged in leaves the
\* cart as it is and opens the user modal, and the order completion (the
\* cart emptied, stored empty and shown empty) never runs while currentUser
\* is null.
C17_PurchaseNeedsLogin ==
  [][/\ ( /\ app = "shop" /\ last'.op = "checkout"
          /\ currentUser = "null" /\ cart[1] # <<>> )
        => cart' = cart /\ blob' = blob /\ userModal' /\ checkoutTimers' = checkoutTimers
     /\ (app = "shop" /\ last'.op = "checkoutDone") => currentUser # "null"]_vars

\* The sum of the quantities of the entries of the cart c.
ItemsOf(c) == SumSeq([i \in 1 .. Len(c) |-> c[i].quantity])

\* The sum of price times quantity over the entries of the cart c: the
\* mapping cart takes the price from the catalog, an array cart from the
\* entry itself.
PriceOf(a, c) ==
  IF a = "mini" THEN SumOfEntries(c)
  ELSE SumSeq([i \in 1 .. Len(c) |-> c[i].price * c[i].quantity])

\* C18: after page load and after every cart mutation the displayed total
\* is the sum of price times quantity over the entries of the cart, the
\* displayed count is the sum of their quantities, and an empty cart shows
\* the empty message and a total of 0.
C18_DisplayInStep ==
  \A t \in open :
    /\ shown[t].count = ItemsOf(cart[t])
    /\ shown[t].total = PriceOf(app, cart[t])
    /\ shown[t].empty <=> cart[t] = <<>>
    /\ cart[t] = <<>> => shown[t].total = 0

C18_Witness ==
  /\ app = "shop"
  /\ last.op = "updateQuantity" /\ last.arg = 1
  /\ Len(cart[1]) = 2
  /\ shown[1].count = 3
  /\ shown[1].total = 2 * cart[1][1].price + cart[1][2].price
  /\ ~shown[1].empty

\* C19 (as claimed): after any search, category, price and sort actions,
\* every product in the grid satisfies all the criteria now selected: the
\* search term typed, the active category and the maximum price.
C19_AllCriteria ==
  \A k \in 1 .. Len(productsGrid) :
    LET product == shopDetails[productsGrid[k]]
        searchTerm == trim(toLowerCase(searchInput)) IN
    /\ searchTerm = <<>> \/ matchesSearch(product, searchTerm)
    /\ activeCategory = all \/ product.category = activeCategory
    /\ product.price <= priceRange

\* C20: setQuantity(p, q) with q > 0 leaves exactly one entry for p, of
\* quantity q, whatever the cart held for p before; with q <= 0 it leaves no
\* entry for p; and either way every other product keeps its quantity.
C20_SetQuantity ==
  [][\A t \in Tabs, id \in MiniIds :
       ( /\ app = "mini" /\ last'.op = "setQuantity"
         /\ last'.tab = t /\ last'.id = id )
       => /\ IF last'.arg > 0
             THEN Entries(cart'[t], id) = 1 /\ Lookup(cart'[t], id) = last'.arg
             ELSE Entries(cart'[t], id) = 0
          /\ \A o \in MiniIds \ {id} :
               /\ Entries(cart'[t], o) = Entries(cart[t], o)
               /\ Lookup(cart'[t], o) = Lookup(cart[t], o)]_vars

C20_Witness ==
  /\ app = "mini"
  /\ last.op = "setQuantity" /\ last.arg = 2 /\ last.was = 1
  /\ Lookup(cart[1], last.id) = 2
  /\ Len(cart[1]) = 2

\* The smaller of two numbers.
Min(a, b) == IF a < b THEN a ELSE b

\* C21: products load in batches of 8: after a page load, search or filter
\* and k clicks of Load More (currentPage = k + 1), the grid shows exactly
\* the first min((k + 1) * 8, N) of the N products of the filtered list, in
\* the order of the list and each once.
C21_BatchesOfEight ==
  LET N == Len(filteredProducts)
      shownCount == Min(currentPage * 8, N) IN
  /\ productsGrid = SubSeq(filteredProducts, 1, shownCount)
  /\ Cardinality({productsGrid[k] : k \in 1 .. Len(productsGrid)}) = Len(productsGrid)

C21_Witness ==
  /\ app = "shop"
  /\ currentPage = 2
  /\ sortSelect = "price-low"
  /\ Len(filteredProducts) = 12
  /\ Len(productsGrid) = 12
  /\ productsGrid[1] = 3 /\ productsGrid[12] = 5

\* The Rasa responses of a list that have a text, in the order of the list.
WithText(bot_responses) == SelectSeq(bot_responses, LAMBDA r : r.hasText)

\* C22: when Rasa answers 200 with a list of responses, the messages that
\* /api/chat returns are, in the order received, one message per response
\* that has a text, its content that text; a response without a text gives
\* no message.
C22_OneMessagePerText ==
  ( /\ rasa_response # <<>>
    /\ ~rasa_response.raised /\ rasa_response.status_code = 200 )
  => /\ response.hasMessages
     /\ Len(response.messages) = Len(WithText(rasa_response.json))
     /\ \A k \in 1 .. Len(response.messages) :
          /\ response.messages[k].content = WithText(rasa_response.json)[k].text
          /\ response.messages[k].type = "bot"

C22_Witness ==
  /\ rasa_response # <<>>
  /\ ~rasa_response.raised /\ rasa_response.status_code = 200
  /\ Len(rasa_response.json) = 2
  /\ ~rasa_response.json[1].hasText
  /\ rasa_response.json[2].hasText
  /\ response.messages = <<[type |-> "bot", content |-> rasa_response.json[2].text]>>

\* The identifiers of the products of the page.
KnownIds(a) ==
  IF a = "mini" THEN {products[i].id : i \in 1 .. Len(products)}
  ELSE IF a = "site" THEN {siteProducts[i].id : i \in 1 .. Len(siteProducts)}
  ELSE {shopProducts[i].id : i \in 1 .. Len(shopProducts)}

\* C23 (as claimed): every cart entry refers to a product of the catalog
\* after any addToCart, setQuantity, updateQuantity and removeFromCart
\* calls, and addToCart with an identifier no product has leaves the cart
\* and the cart that the stored blob holds as they were.
C23_OnlyKnownProducts ==
  [][/\ \A t \in open : \A i \in 1 .. Len(cart'[t]) : cart'[t][i].id \in KnownIds(app)
     /\ (last'.op = "addToCart" /\ last' # last /\ last'.id \notin KnownIds(app))
          => cart' = cart /\ Load(app, blob') = Load(app, blob)]_vars

\* C24: in the two array carts (site and shop) no product id occurs in two
\* entries of the cart, after any sequence of addToCart, updateQuantity,
\* removeFromCart, clear and checkout from the empty cart.
C24_NoDuplicateIds ==
  app \in {"site", "shop"} =>
    \A t \in open : \A id \in ArrayIds : Entries(cart[t], id) <= 1

C24_Witness ==
  /\ app = "site"
  /\ last.op = "addToCart"
  /\ Len(cart[1]) = 2
  /\ Entries(cart[1], last.id) = 1
  /\ Lookup(cart[1], last.id) = 2

\* C25: a rejected send changes nothing.  When sendMessage() is called on an
\* input that is empty or whitespace only, or while isLoading is set, the
\* message list, the requests sent and the calls in flight stay as they were,
\* and so do the loading flag and the text the input field held at the call
\* (the question, when the timer of a quick-action button makes the call).
C25_RejectedSendChangesNothing ==
  [][LET byTimer == chatLast'.op = "quickTimer" /\ quickTimers' = quickTimers - 1
         byButton == /\ chatLast'.op = "sendMessage"
                     /\ quickTimers' = quickTimers /\ health' = health
         value == IF byTimer THEN Question ELSE messageInput IN
     ((byTimer \/ byButton) /\ (trim(value) = <<>> \/ isLoading))
       => /\ chatMessages' = chatMessages
          /\ log' = log
          /\ posts' = posts
          /\ calls' = calls
          /\ isLoading' = isLoading
          /\ messageInput' = value]_vars

C25_Witness ==
  /\ chatLast = ChatRan("sendMessage", "rejected", 0)
  /\ messageInput = <<" ">>
  /\ ~isLoading
  /\ Len(chatMessages) = 1
  /\ posts = <<>>

\* C26: every accepted sendMessage() brings the client back to not loading.
\* The step in which a call of sendMessage() ends, on the success path or on
\* the failure path, clears isLoading (setLoading(false) enables the button
\* and the input and hides the overlay with it), and when the network
\* answers, a client that is loading is eventually not loading.
C26_BackToNotLoading ==
  /\ [][Len(calls') < Len(calls) => ~isLoading']_vars
  /\ [](isLoading => Len(calls) > 0)
  /\ (isLoading ~> ~isLoading)

C26_Witness ==
  /\ chatLast.op = "fetchReject"
  /\ ~isLoading
  /\ calls = <<>>
  /\ Len(posts) = 1
  /\ errorModal
  /\ chatMessages[Len(chatMessages)].content = Fallback

\* C27: every bot reply and every fallback message of the visible message
\* list has a user message before it in that list, the message that
\* triggered it, however sendMessage, showWelcome and startChat interleave
\* with the arrival of the response.
C27_ReplyAfterItsUserMessage ==
  \A k \in 1 .. Len(chatMessages) :
    (chatMessages[k].role = "bot" /\ chatMessages[k].content # Welcome)
      => \E j \in 1 .. k - 1 : chatMessages[j].role = "user"

\* C28: every click on a quick-action button gets its question appended as a
\* user message and sent to /api/chat.  The timer the click starts is the one
\* place that sends the question, so: whenever the timer of a click fires,
\* also during an earlier request or right behind the timer of another click,
\* the question is appended as a user message and posted.
C28_QuickQuestionSent ==
  [][quickTimers' = quickTimers - 1
       => /\ chatMessages' = addUserMessage(chatMessages, Question)
          /\ posts' = Append(posts, [message |-> Question, session_id |-> sessionId])]_vars

====
